---------------------------- MODULE Spec2Model ----------------------------
(***************************************************************************)
(* Model of src/main.py: the sanctions-list change tracker.                *)
(*                                                                         *)
(* Text is a sequence of one-character strings, so that strip(), lower(),  *)
(* substring containment and the CSV quoting of data.csv are computed and  *)
(* not assumed.  A calendar date is a day number; its YYYY-MM-DD text is   *)
(* abstracted to a two-digit, zero-padded decimal text (strftime pads,     *)
(* strptime also accepts the unpadded form).                               *)
(***************************************************************************)
EXTENDS Integers, Sequences, FiniteSets, TLC

VARIABLES
    data_csv,        \* data.csv: [exists, lines]; lines are the data lines after the header
    log_txt,         \* log.txt:  [exists, text]
    listing,         \* the web: the listing pages, each a sequence of links <<url, date>>
    bulletin,        \* the web: url -> the three name lists of that bulletin's page
    pc,              \* position of the process in main()
    argv,            \* the command-line arguments of this run
    start_date,      \* main: start_date
    end_date,        \* main: end_date
    existing_names,  \* main: existing_names
    page,            \* collect_content_pages: page
    content_pages,   \* collect_content_pages: content_pages
    todo,            \* main: the bulletins the for loop has still to process
    cur,             \* main: the bulletin being processed: its date and remaining names
    changes,         \* the list of change tuples: <<date, name>> or <<date, name, address>>
    run,             \* number of runs of main() started so far
    calls,           \* number of update_data_csv calls made so far
    faults,          \* number of failed file or network operations so far
    csv_before,      \* history: data.csv as it was when the last update_data_csv call began
    update_outcome,  \* history: how the last update_data_csv call ended
    index_outcome,   \* history: how collect_content_pages ended
    fetches,         \* history: listing pages requested by this collect_content_pages call
    log_before,      \* history: log.txt as it was when this run began
    net_failed,      \* history: a network request of this run has failed
    detail_fetched,  \* history: <<query name, candidate>> pairs whose detail page was requested
    loaded_names,    \* history: the names load_existing_names returned to this run
    dropped,         \* history: <<name, length of changes>> of each deletion read and not emitted
    prev_window      \* history: <<start_date, end_date>> of the run before this one

webVars == <<listing, bulletin>>
fileVars == <<data_csv, log_txt>>
indexVars == <<page, content_pages, index_outcome, fetches>>
mainVars == <<argv, start_date, end_date, existing_names, todo, cur, run>>
updateVars == <<calls, csv_before, update_outcome>>
historyVars == <<log_before, net_failed, detail_fetched, loaded_names, dropped,
                 prev_window>>

vars == <<data_csv, log_txt, listing, bulletin, pc, argv, start_date, end_date,
          existing_names, page, content_pages, todo, cur, changes, run, calls, faults,
          csv_before, update_outcome, index_outcome, fetches, log_before, net_failed,
          detail_fetched, loaded_names, dropped, prev_window>>

---------------------------------------------------------------------------
(* Bounds of the model *)

MaxChanges == 2      \* longest change list handed to update_data_csv directly
MaxRows == 1         \* most rows of an initial data.csv
MaxCalls == 2        \* most successive update_data_csv calls on one store
MaxFaults == 1       \* most failed file or network operations in one behaviour
MaxPages == 2        \* most listing pages that hold links
MaxLinks == 2        \* most links on one listing page
MaxRuns == 2         \* most successive runs of main()

---------------------------------------------------------------------------
(* Text *)

QUOTE == "\""
COMMA == ","
SPACE == " "

\* str.lower(), one character
LowerChar(c) ==
    CASE c = "D" -> "d"
      [] c = "J" -> "j"
      [] c = "X" -> "x"
      [] c = "A" -> "a"
      [] c = "Q" -> "q"
      [] OTHER -> c

\* str.lower()
Lower(s) == [i \in 1..Len(s) |-> LowerChar(s[i])]

RECURSIVE LStrip(_)
LStrip(s) == IF s # <<>> /\ Head(s) = SPACE THEN LStrip(Tail(s)) ELSE s

RECURSIVE RStrip(_)
RStrip(s) ==
    IF s # <<>> /\ s[Len(s)] = SPACE THEN RStrip(SubSeq(s, 1, Len(s) - 1)) ELSE s

\* str.strip()
Strip(s) == RStrip(LStrip(s))

\* a in b, for two texts
Contains(a, b) ==
    \E i \in 0..(Len(b) - Len(a)) : SubSeq(b, i + 1, i + Len(a)) = a

\* str.replace('"', '""')
RECURSIVE EscapeQuotes(_)
EscapeQuotes(s) ==
    IF s = <<>> THEN <<>>
    ELSE IF Head(s) = QUOTE THEN <<QUOTE, QUOTE>> \o EscapeQuotes(Tail(s))
    ELSE <<Head(s)>> \o EscapeQuotes(Tail(s))

---------------------------------------------------------------------------
(* Dates *)

Digit(n) == CASE n = 0 -> "0" [] n = 1 -> "1" [] n = 2 -> "2" [] n = 3 -> "3"
              [] n = 4 -> "4" [] n = 5 -> "5" [] n = 6 -> "6" [] n = 7 -> "7"
              [] n = 8 -> "8" [] n = 9 -> "9"

DigitValue(c) == CASE c = "0" -> 0 [] c = "1" -> 1 [] c = "2" -> 2 [] c = "3" -> 3
                   [] c = "4" -> 4 [] c = "5" -> 5 [] c = "6" -> 6 [] c = "7" -> 7
                   [] c = "8" -> 8 [] c = "9" -> 9 [] OTHER -> -1

\* date.strftime("%Y-%m-%d"): zero-padded
StrfDate(d) == <<Digit(d \div 10), Digit(d % 10)>>

NoDate == -1

\* datetime.strptime(s, "%Y-%m-%d"): NoDate stands for ValueError
StrpDate(s) ==
    IF Len(s) = 1 /\ DigitValue(s[1]) >= 1 THEN DigitValue(s[1])
    ELSE IF Len(s) = 2 /\ DigitValue(s[1]) >= 0 /\ DigitValue(s[2]) >= 0
                      /\ 10 * DigitValue(s[1]) + DigitValue(s[2]) >= 1
         THEN 10 * DigitValue(s[1]) + DigitValue(s[2])
    ELSE NoDate

---------------------------------------------------------------------------
(* data.csv: writing and reading one line *)

\* f.write(f'{date_added},{address},"{escaped_name}"\n')
WriteRow(row) ==
    row.date_added \o <<COMMA>> \o row.address \o <<COMMA>>
        \o <<QUOTE>> \o EscapeQuotes(row.name) \o <<QUOTE>>

WriteRows(rows) == [i \in 1..Len(rows) |-> WriteRow(rows[i])]

\* csv.reader, excel dialect, over one line: st is the parser state, field the
\* field being read, out the fields read
RECURSIVE CsvFields(_, _, _, _)
CsvFields(line, st, field, out) ==
    IF line = <<>>
    THEN IF st = "START_RECORD" THEN out ELSE Append(out, field)
    ELSE LET c == Head(line)
             rest == Tail(line)
         IN  CASE st \in {"START_RECORD", "START_FIELD"} ->
                    IF c = QUOTE THEN CsvFields(rest, "IN_QUOTED_FIELD", <<>>, out)
                    ELSE IF c = COMMA THEN CsvFields(rest, "START_FIELD", <<>>, Append(out, <<>>))
                    ELSE CsvFields(rest, "IN_FIELD", <<c>>, out)
               [] st = "IN_FIELD" ->
                    IF c = COMMA THEN CsvFields(rest, "START_FIELD", <<>>, Append(out, field))
                    ELSE CsvFields(rest, "IN_FIELD", Append(field, c), out)
               [] st = "IN_QUOTED_FIELD" ->
                    IF c = QUOTE THEN CsvFields(rest, "QUOTE_IN_QUOTED_FIELD", field, out)
                    ELSE CsvFields(rest, "IN_QUOTED_FIELD", Append(field, c), out)
               [] st = "QUOTE_IN_QUOTED_FIELD" ->
                    IF c = QUOTE THEN CsvFields(rest, "IN_QUOTED_FIELD", Append(field, c), out)
                    ELSE IF c = COMMA THEN CsvFields(rest, "START_FIELD", <<>>, Append(out, field))
                    ELSE CsvFields(rest, "IN_FIELD", Append(field, c), out)

\* csv.DictReader over the header date_added,address,name: one row of the file
ReadRow(line) ==
    LET f == CsvFields(line, "START_RECORD", <<>>, <<>>)
    IN  [date_added |-> f[1], address |-> f[2], name |-> f[3]]

ReadRows(lines) == [i \in 1..Len(lines) |-> ReadRow(lines[i])]

---------------------------------------------------------------------------
(* update_data_csv *)

IsDeletion(change) == Len(change) = 2

\* a deletion that compares the names as written
ApplyDeletionExact(rows, change) ==
    SelectSeq(rows, LAMBDA row : row.name # change[2])

\* rows = [row for row in rows if row.get('name','').strip().lower() != name_to_delete]
ApplyDeletion(rows, change) ==
    LET name_to_delete == Lower(Strip(change[2]))
    IN  SelectSeq(rows, LAMBDA row : Lower(Strip(row.name)) # name_to_delete)

\* a duplicate test that does not lower-case the stored address
SameEntryRawAddress(row, date_str, address, name) ==
    /\ Strip(row.date_added) = date_str
    /\ Strip(row.address) = address
    /\ Strip(row.name) = name

\* the duplicate test of an addition against one stored row
SameEntry(row, date_str, address, name) ==
    /\ Strip(row.date_added) = date_str
    /\ Strip(Lower(row.address)) = address
    /\ Strip(row.name) = name

\* the row appended for an addition
NewRow(change) ==
    [date_added |-> StrfDate(change[1]), address |-> change[3], name |-> change[2]]

\* an addition that puts its row before the rows read
ApplyAdditionFront(rows, change) ==
    LET date_str == StrfDate(change[1])
        address == Strip(Lower(change[3]))
        name == Strip(change[2])
        already_exists ==
            \E i \in 1..Len(rows) : SameEntry(rows[i], date_str, address, name)
    IN  IF already_exists THEN rows ELSE <<NewRow(change)>> \o rows

\* an addition that appends its row without looking for the entry
ApplyAdditionNoCheck(rows, change) == Append(rows, NewRow(change))

\* an addition: the row is appended unless a row is already the same entry
ApplyAddition(rows, change) ==
    LET date_str == StrfDate(change[1])
        address == Strip(Lower(change[3]))
        name == Strip(change[2])
        already_exists ==
            \E i \in 1..Len(rows) : SameEntry(rows[i], date_str, address, name)
    IN  IF already_exists THEN rows ELSE Append(rows, NewRow(change))

ApplyChange(rows, change) ==
    IF IsDeletion(change) THEN ApplyDeletion(rows, change)
    ELSE ApplyAddition(rows, change)

\* for change in changes: ...
RECURSIVE UpdateRows(_, _)
UpdateRows(rows, chs) ==
    IF chs = <<>> THEN rows
    ELSE UpdateRows(ApplyChange(rows, Head(chs)), Tail(chs))

\* the rows update_data_csv reads from a file
LoadRows(file) == IF file.exists THEN ReadRows(file.lines) ELSE <<>>

NoFile == [exists |-> FALSE, lines |-> <<>>]

NoLog == [exists |-> FALSE, text |-> <<>>]

FileOf(rows) == [exists |-> TRUE, lines |-> WriteRows(rows)]

\* update_data_csv(changes): read, apply the changes in order, write back
UpdateDataCsv ==
    /\ pc = "update"
    /\ pc' = "save"
    /\ calls' = calls + 1
    /\ csv_before' = data_csv
    /\ \/ \* reading data.csv raises: warning, return
          /\ data_csv.exists
          /\ faults < MaxFaults
          /\ faults' = faults + 1
          /\ update_outcome' = "read_failed"
          /\ UNCHANGED data_csv
       \/ \* read, applied, written
          /\ data_csv' = FileOf(UpdateRows(LoadRows(data_csv), changes))
          /\ update_outcome' = "ok"
          /\ UNCHANGED faults
       \/ \* open(csv_path, 'w') raises: the file is left as it was
          /\ faults < MaxFaults
          /\ faults' = faults + 1
          /\ update_outcome' = "write_failed"
          /\ UNCHANGED data_csv
       \/ \* a write raises after open() truncated the file: a prefix is on disk
          /\ faults < MaxFaults
          /\ faults' = faults + 1
          /\ update_outcome' = "write_failed"
          /\ LET rows == UpdateRows(LoadRows(data_csv), changes)
             IN  \E k \in 0..(Len(rows) - 1) :
                    data_csv' = FileOf(SubSeq(rows, 1, k))
    /\ UNCHANGED <<log_txt, changes, webVars, indexVars, mainVars, historyVars>>

---------------------------------------------------------------------------
(* collect_content_pages *)

\* a window test that forgets the upper end
InWindowNoEnd(link_date, start, end) == start <= link_date

\* start_date <= link_date <= end_date
InWindow(link_date, start, end) == start <= link_date /\ link_date <= end

\* a scan that goes on to the end of the page after meeting a link older than start
RECURSIVE ScanLinksWholePage(_, _, _, _)
ScanLinksWholePage(links, collected, start, end) ==
    IF links = <<>> THEN [pages |-> collected, stop |-> FALSE]
    ELSE LET link_date == Head(links)[2]
             rest == ScanLinksWholePage(Tail(links),
                        IF InWindow(link_date, start, end)
                        THEN Append(collected, Head(links)) ELSE collected,
                        start, end)
         IN  [pages |-> rest.pages, stop |-> rest.stop \/ link_date < start]

\* for link_url, link_date in links: the pages collected, and whether a link
\* older than start was met (the function then returns at once)
RECURSIVE ScanLinks(_, _, _, _)
ScanLinks(links, collected, start, end) ==
    IF links = <<>> THEN [pages |-> collected, stop |-> FALSE]
    ELSE LET link_date == Head(links)[2]
         IN  IF InWindow(link_date, start, end)
             THEN ScanLinks(Tail(links), Append(collected, Head(links)), start, end)
             ELSE IF link_date < start
             THEN [pages |-> collected, stop |-> TRUE]
             ELSE ScanLinks(Tail(links), collected, start, end)

\* extract_content_links(response.text): the links of listing page `p`; a page
\* past the last one holds no link
LinksOfPage(p) == IF p < Len(listing) THEN listing[p + 1] ELSE <<>>

\* where main goes on once collect_content_pages has returned `pages`
AfterCollect(pages) == IF pages = <<>> THEN "update" ELSE "process"

\* reversed(content_pages)
Reversed(s) == [i \in 1..Len(s) |-> s[Len(s) + 1 - i]]

\* one iteration of the while loop of collect_content_pages
FetchPage ==
    /\ pc = "collect"
    /\ fetches' = fetches + 1
    /\ \/ \* session.get raises: break
          /\ faults < MaxFaults
          /\ faults' = faults + 1
          /\ net_failed' = TRUE
          /\ index_outcome' = "fetch_failed"
          /\ pc' = AfterCollect(content_pages)
          /\ todo' = Reversed(content_pages)
          /\ UNCHANGED <<page, content_pages>>
       \/ \* the page holds no link: break
          /\ LinksOfPage(page) = <<>>
          /\ index_outcome' = "no_links"
          /\ pc' = AfterCollect(content_pages)
          /\ todo' = Reversed(content_pages)
          /\ UNCHANGED <<page, content_pages, faults, net_failed>>
       \/ \* the links are scanned
          /\ LinksOfPage(page) # <<>>
          /\ LET scan == ScanLinks(LinksOfPage(page), content_pages, start_date, end_date)
             IN  /\ content_pages' = scan.pages
                 /\ IF scan.stop
                    THEN /\ index_outcome' = "early_stop"
                         /\ pc' = AfterCollect(scan.pages)
                         /\ todo' = Reversed(scan.pages)
                         /\ UNCHANGED page
                    ELSE /\ page' = page + 1
                         /\ UNCHANGED <<index_outcome, pc, todo>>
          /\ UNCHANGED <<faults, net_failed>>
    /\ UNCHANGED <<fileVars, webVars, argv, start_date, end_date, existing_names, cur,
                   changes, run, updateVars, log_before, detail_fetched, loaded_names,
                   dropped, prev_window>>

\* the state of the variables of collect_content_pages before it is called
IndexIdle ==
    /\ page = 0
    /\ content_pages = <<>>
    /\ index_outcome = "none"
    /\ fetches = 0

NoBulletin == [date |-> NoDate, names |-> <<>>, deletions |-> <<>>]

\* the state of the variables of main() before main() is entered
NotStarted ==
    /\ argv = <<>>
    /\ start_date = NoDate
    /\ end_date = NoDate
    /\ existing_names = {}
    /\ todo = <<>>
    /\ cur = NoBulletin
    /\ run = 0
    /\ log_before = NoLog
    /\ net_failed = FALSE
    /\ detail_fetched = {}
    /\ loaded_names = {}
    /\ dropped = {}
    /\ prev_window = <<NoDate, NoDate>>

---------------------------------------------------------------------------
(* The sanctions search service, as the run sees it *)

EthType == "Digital Currency Address - ETH"

\* query_ofac_search(name): the rows of the result table, the same for every
\* query: a match in another case and with more text, a row of another name,
\* and a match that carries no detail link (0)
SearchResults ==
    << [name |-> <<"d", ",", "j", " ", "A">>, detail_url |-> 1],
       [name |-> <<"Q", "\"">>, detail_url |-> 2],
       [name |-> <<"D", ",", "J">>, detail_url |-> 0] >>

\* get_identification_details(detail_url): the rows of the identification table
Identifications(detail_url) ==
    CASE detail_url = 1 ->
            << [type |-> EthType, id_number |-> <<" ", "X", "A">>],
               [type |-> "Passport", id_number |-> <<"X", "J">>] >>
      [] detail_url = 2 ->
            << [type |-> EthType, id_number |-> <<"x", "q">>] >>
      [] OTHER -> <<>>

\* extract_eth_address(identifications)
RECURSIVE ExtractEthAddress(_)
ExtractEthAddress(ids) ==
    IF ids = <<>> THEN <<>>
    ELSE IF Head(ids).type = EthType
         THEN <<Lower(Strip(Head(ids).id_number))>> \o ExtractEthAddress(Tail(ids))
         ELSE ExtractEthAddress(Tail(ids))

\* a filter that lets every search result through
CorrelatesAlways(name, result) == TRUE

\* the test of lines 717-720: the found name contains the query name
Correlates(name, result) == Contains(Lower(Strip(name)), Lower(Strip(result.name)))

\* the results of a search whose detail page main requests
DetailRequests(name, results) ==
    {i \in 1..Len(results) : Correlates(name, results[i]) /\ results[i].detail_url # 0}

\* for result in search_results: the additions appended for `name`; `failed`
\* are the positions of the results whose detail request fails
RECURSIVE Resolve(_, _, _, _, _)
Resolve(name, date, results, i, failed) ==
    IF i > Len(results) THEN <<>>
    ELSE LET eth_addresses ==
                 IF i \in DetailRequests(name, results) /\ i \notin failed
                 THEN ExtractEthAddress(Identifications(results[i].detail_url))
                 ELSE <<>>
         IN  [k \in 1..Len(eth_addresses) |-> <<date, name, eth_addresses[k]>>]
                 \o Resolve(name, date, results, i + 1, failed)

---------------------------------------------------------------------------
(* main *)

Max(S) == CHOOSE d \in S : \A e \in S : e <= d

\* datetime.now(), as a day
Today == 3

\* load_existing_names over the rows read
NamesOf(rows) == {Strip(rows[i].name) : i \in {j \in 1..Len(rows) : Strip(rows[j].name) # <<>>}}

\* the date get_last_processed_date takes from log.txt, NoDate when it takes none
DateOfLog(log) ==
    IF log.exists /\ Strip(log.text) # <<>> THEN StrpDate(Strip(log.text)) ELSE NoDate

\* the date get_last_processed_date takes from the rows of data.csv
DateOfRows(rows) ==
    LET dates == {StrpDate(Strip(rows[i].date_added)) : i \in 1..Len(rows)} \ {NoDate}
    IN  IF dates = {} THEN NoDate ELSE Max(dates)

\* a reading that looks at data.csv before log.txt
GetLastProcessedDateStoreFirst(log, csv, log_ok, csv_ok) ==
    IF csv.exists /\ csv_ok /\ DateOfRows(ReadRows(csv.lines)) # NoDate
    THEN DateOfRows(ReadRows(csv.lines))
    ELSE IF log_ok THEN DateOfLog(log)
    ELSE NoDate

\* get_last_processed_date(); log_ok and csv_ok tell whether the files can be read
GetLastProcessedDate(log, csv, log_ok, csv_ok) ==
    IF log_ok /\ DateOfLog(log) # NoDate THEN DateOfLog(log)
    ELSE IF csv.exists /\ csv_ok THEN DateOfRows(ReadRows(csv.lines))
    ELSE NoDate

\* the window main derives from its arguments: [ok, start, end]
Window(args, last_date) ==
    CASE Len(args) = 0 ->
            [ok |-> last_date # NoDate, start |-> last_date, end |-> Today]
      [] Len(args) = 1 ->
            [ok |-> StrpDate(args[1]) # NoDate /\ StrpDate(args[1]) <= Today,
             start |-> StrpDate(args[1]), end |-> Today]
      [] Len(args) = 2 ->
            [ok |-> /\ StrpDate(args[1]) # NoDate
                    /\ StrpDate(args[2]) # NoDate
                    /\ StrpDate(args[1]) <= StrpDate(args[2]),
             start |-> StrpDate(args[1]), end |-> StrpDate(args[2])]
      [] OTHER -> [ok |-> FALSE, start |-> NoDate, end |-> NoDate]

BadDateText == <<"x">>

ArgChoices ==
    {<<>>, <<StrfDate(1)>>, <<StrfDate(1), StrfDate(2)>>,
     <<StrfDate(2), StrfDate(1)>>, <<BadDateText>>}

\* main() is entered: the arguments are read, the window is set, the names of
\* data.csv are loaded (lines 634-703)
Start ==
    /\ pc \in {"start", "done", "exit"}
    /\ run < MaxRuns
    /\ run' = run + 1
    /\ log_before' = log_txt
    /\ \E args \in ArgChoices, log_ok, csv_ok \in BOOLEAN :
          LET log_fault == Len(args) = 0 /\ log_txt.exists /\ ~log_ok
              csv_fault == /\ Len(args) = 0
                           /\ ~(log_ok /\ DateOfLog(log_txt) # NoDate)
                           /\ data_csv.exists /\ ~csv_ok
              nfaults == (IF log_fault THEN 1 ELSE 0) + (IF csv_fault THEN 1 ELSE 0)
              last_date == GetLastProcessedDate(log_txt, data_csv, log_ok, csv_ok)
              w == Window(args, last_date)
          IN  /\ log_ok \/ log_fault
              /\ csv_ok \/ csv_fault
              /\ faults + nfaults <= MaxFaults
              /\ argv' = args
              /\ IF ~w.ok
                 THEN \* sys.exit(1)
                      /\ pc' = "exit"
                      /\ faults' = faults + nfaults
                      /\ start_date' = NoDate
                      /\ end_date' = NoDate
                      /\ existing_names' = {}
                      /\ loaded_names' = {}
                 ELSE /\ pc' = "collect"
                      /\ start_date' = w.start
                      /\ end_date' = w.end
                      /\ \/ \* load_existing_names reads every row
                            /\ existing_names' = NamesOf(LoadRows(data_csv))
                            /\ faults' = faults + nfaults
                         \/ \* reading raises after k rows: the names read so far
                            /\ data_csv.exists
                            /\ faults + nfaults < MaxFaults
                            /\ faults' = faults + nfaults + 1
                            /\ \E k \in 0..(Len(data_csv.lines) - 1) :
                                  existing_names' =
                                      NamesOf(ReadRows(SubSeq(data_csv.lines, 1, k)))
                      /\ loaded_names' = existing_names'
    /\ page' = 0
    /\ content_pages' = <<>>
    /\ index_outcome' = "none"
    /\ fetches' = 0
    /\ todo' = <<>>
    /\ cur' = NoBulletin
    /\ changes' = <<>>
    /\ net_failed' = FALSE
    /\ detail_fetched' = {}
    /\ dropped' = {}
    /\ prev_window' = <<start_date, end_date>>
    /\ UNCHANGED <<fileVars, webVars, updateVars>>

\* extract_content_data(content_url) for the next bulletin of the for loop
ExtractContentData ==
    /\ pc = "process"
    /\ todo # <<>>
    /\ pc' = "resolve"
    /\ \/ \* requests.get raises: three empty lists
          /\ faults < MaxFaults
          /\ faults' = faults + 1
          /\ net_failed' = TRUE
          /\ cur' = [date |-> Head(todo)[2], names |-> <<>>, deletions |-> <<>>]
       \/ /\ cur' = [date |-> Head(todo)[2],
                     names |-> bulletin[Head(todo)[1]].individuals_added
                                  \o bulletin[Head(todo)[1]].entities_added,
                     deletions |-> bulletin[Head(todo)[1]].deletions]
          /\ UNCHANGED <<faults, net_failed>>
    /\ todo' = Tail(todo)
    /\ UNCHANGED <<fileVars, webVars, indexVars, argv, start_date, end_date,
                   existing_names, changes, run, updateVars, log_before, detail_fetched,
                   loaded_names, dropped, prev_window>>

\* a run that never adds a resolved name to the set
RememberNever(names, name, added) == names

\* if eth_addresses: existing_names.add(name)
Remember(names, name, added) == IF added # <<>> THEN names \cup {name} ELSE names

\* one iteration of "for name in individuals_added" or "for name in
\* entities_added": the two loop bodies are the same (lines 711-755)
ResolveName ==
    /\ pc = "resolve"
    /\ cur.names # <<>>
    /\ LET name == Head(cur.names)
       IN  \/ \* query_ofac_search fails: no result
              /\ faults < MaxFaults
              /\ faults' = faults + 1
              /\ net_failed' = TRUE
              /\ UNCHANGED <<changes, existing_names, detail_fetched>>
           \/ \E failed \in SUBSET DetailRequests(name, SearchResults) :
                 LET added == Resolve(name, cur.date, SearchResults, 1, failed)
                 IN  /\ faults + Cardinality(failed) <= MaxFaults
                     /\ faults' = faults + Cardinality(failed)
                     /\ net_failed' = (net_failed \/ failed # {})
                     /\ changes' = changes \o added
                     /\ existing_names' = Remember(existing_names, name, added)
                     /\ detail_fetched' = detail_fetched \cup
                           {<<name, SearchResults[i]>> :
                               i \in DetailRequests(name, SearchResults)}
    /\ cur' = [cur EXCEPT !.names = Tail(cur.names)]
    /\ UNCHANGED <<fileVars, webVars, indexVars, pc, argv, start_date, end_date, todo,
                   run, updateVars, log_before, loaded_names, dropped, prev_window>>

\* a gate that lets every deletion through
KnownAlways(name, names) == TRUE

\* if name in existing_names
Known(name, names) == name \in names

\* for name in deletions: the deletions appended
RECURSIVE GatedDeletions(_, _, _)
GatedDeletions(date, names, known) ==
    IF names = <<>> THEN <<>>
    ELSE (IF Known(Head(names), known) THEN << <<date, Head(names)>> >> ELSE <<>>)
            \o GatedDeletions(date, Tail(names), known)

\* the "for name in deletions" loop of the bulletin, then the next bulletin
ProcessDeletions ==
    /\ pc = "resolve"
    /\ cur.names = <<>>
    /\ changes' = changes \o GatedDeletions(cur.date, cur.deletions, existing_names)
    /\ dropped' = dropped \cup
          {<<cur.deletions[i], Len(changes)>> :
              i \in {j \in 1..Len(cur.deletions) :
                        ~Known(cur.deletions[j], existing_names)}}
    /\ cur' = NoBulletin
    /\ pc' = IF todo = <<>> THEN "update" ELSE "process"
    /\ UNCHANGED <<fileVars, webVars, indexVars, argv, start_date, end_date,
                   existing_names, todo, run, faults, updateVars, log_before, net_failed,
                   detail_fetched, loaded_names, prev_window>>

LogOf(text) == [exists |-> TRUE, text |-> text]

\* save_last_processed_date(end_date)
SaveLastProcessedDate ==
    /\ pc = "save"
    /\ pc' = "done"
    /\ \/ /\ log_txt' = LogOf(StrfDate(end_date))
          /\ UNCHANGED faults
       \/ \* open(log_path, 'w') raises: warning
          /\ faults < MaxFaults
          /\ faults' = faults + 1
          /\ UNCHANGED log_txt
       \/ \* f.write raises after open() truncated the file: warning
          /\ faults < MaxFaults
          /\ faults' = faults + 1
          /\ log_txt' = LogOf(<<>>)
    /\ UNCHANGED <<data_csv, webVars, indexVars, mainVars, changes, updateVars,
                   historyVars>>

\* the bulletins of the web: their three name lists (a bulletin without any
\* name is what a failed request yields)
Contents ==
    { [individuals_added |-> <<(<<"D", ",", "J">>)>>,
       entities_added |-> <<(<<"W", "U">>)>>, deletions |-> <<>>],
      [individuals_added |-> <<>>, entities_added |-> <<>>,
       deletions |-> <<(<<"D", ",", "J">>), (<<"W", "U">>)>>],
      [individuals_added |-> <<(<<"D", ",", "J">>)>>, entities_added |-> <<>>,
       deletions |-> <<(<<"D", ",", "J">>)>>] }

\* the listing of the two bulletins, dated day 1 and day 2: newest first on one
\* page, newest first on two pages, oldest first
Listings ==
    { << <<(<<2, 2>>), (<<1, 1>>)>> >>,
      << <<(<<2, 2>>)>>, <<(<<1, 1>>)>> >>,
      << <<(<<1, 1>>), (<<2, 2>>)>> >> }

Init ==
    /\ listing \in Listings
    /\ bulletin \in [{1, 2} -> Contents]
    /\ data_csv \in {NoFile,
                     FileOf(<<[date_added |-> StrfDate(1), address |-> <<"x", "a">>,
                               name |-> <<"D", ",", "j">>]>>)}
    /\ log_txt = NoLog
    /\ pc = "start"
    /\ changes = <<>>
    /\ calls = 0
    /\ faults = 0
    /\ csv_before = NoFile
    /\ update_outcome = "none"
    /\ NotStarted
    /\ IndexIdle

Next ==
    \/ Start
    \/ FetchPage
    \/ ExtractContentData
    \/ ResolveName
    \/ ProcessDeletions
    \/ UpdateDataCsv
    \/ SaveLastProcessedDate

Spec == Init /\ [][Next]_vars

---------------------------------------------------------------------------
(* Runs that begin with a cursor file and a store left by earlier use *)

\* a day after today: the end of a window an earlier run was given
FutureDay == Today + 1

\* log.txt: absent, a date, a date between blanks, empty, not a date, and the
\* end date of an earlier run whose window ended after today
CursorLogs ==
    {NoLog, LogOf(StrfDate(2)), LogOf(<<SPACE>> \o StrfDate(1) \o <<SPACE>>),
     LogOf(<<>>), LogOf(BadDateText), LogOf(StrfDate(FutureDay))}

\* data.csv: absent, without rows, one row, a row of a later day followed by a
\* row whose date cannot be parsed and a row of an earlier day, a row whose
\* date cannot be parsed, and a row dated after today
CursorStores ==
    {NoFile,
     FileOf(<<>>),
     FileOf(<<[date_added |-> StrfDate(1), address |-> <<"x", "a">>,
               name |-> <<"D", ",", "J">>]>>),
     FileOf(<<[date_added |-> StrfDate(2), address |-> <<"x", "a">>,
               name |-> <<"D", ",", "J">>],
              [date_added |-> BadDateText, address |-> <<"x", "q">>,
               name |-> <<"Q", QUOTE>>],
              [date_added |-> StrfDate(1), address |-> <<"x", "q">>,
               name |-> <<"Q", QUOTE>>]>>),
     FileOf(<<[date_added |-> BadDateText, address |-> <<"x", "a">>,
               name |-> <<"D", ",", "J">>]>>),
     FileOf(<<[date_added |-> StrfDate(FutureDay), address |-> <<"x", "a">>,
               name |-> <<"D", ",", "J">>]>>)}

\* the bulletin of both days: a name added and deleted
CursorContent ==
    [individuals_added |-> <<(<<"D", ",", "J">>)>>, entities_added |-> <<>>,
     deletions |-> <<(<<"D", ",", "J">>)>>]

InitCursor ==
    /\ listing = << <<(<<2, 2>>), (<<1, 1>>)>> >>
    /\ bulletin = [u \in {1, 2} |-> CursorContent]
    /\ data_csv \in CursorStores
    /\ log_txt \in CursorLogs
    /\ pc = "start"
    /\ changes = <<>>
    /\ calls = 0
    /\ faults = 0
    /\ csv_before = NoFile
    /\ update_outcome = "none"
    /\ NotStarted
    /\ IndexIdle

SpecCursor == InitCursor /\ [][Next]_vars

---------------------------------------------------------------------------
(* update_data_csv on its own: any small store, any short change list *)

NameDJ == <<"D", ",", "J">>
NameDj == <<"D", ",", "j">>
NameSp == <<" ", "D", ",", "J">>
NameSpj == <<" ", "D", ",", "j">>
NameQ == <<"Q", QUOTE>>

AddrUpper == <<"X", "A">>
AddrLower == <<"x", "a">>

SeqUpTo(S, n) == UNION {[1..k -> S] : k \in 0..n}

\* rows of an initial data.csv: one date, both spellings of the address, a name
\* in two spellings and another name
RowUniverse ==
    {[date_added |-> StrfDate(1), address |-> a, name |-> n] :
        a \in {AddrUpper, AddrLower}, n \in {NameDJ, NameDj, NameQ}}

\* additions as in the documented example (an upper-case address): a name on
\* two dates, the same name with a leading blank, and a name that holds a
\* quote; a deletion by a variant of the first name in case and blanks
Additions ==
    {<<1, NameDJ, AddrUpper>>, <<2, NameDJ, AddrUpper>>, <<2, NameSp, AddrUpper>>,
     <<1, NameQ, AddrUpper>>}
Deletions == {<<2, NameSpj>>}

\* two stores of two rows: no two rows of one store are the same entry
TwoRowStores ==
    { << [date_added |-> StrfDate(1), address |-> AddrLower, name |-> NameDJ],
         [date_added |-> StrfDate(1), address |-> AddrLower, name |-> NameQ] >>,
      << [date_added |-> StrfDate(1), address |-> AddrUpper, name |-> NameQ],
         [date_added |-> StrfDate(1), address |-> AddrLower, name |-> NameDj] >> }

InitStore ==
    /\ data_csv \in {NoFile} \cup {FileOf(rows) : rows \in SeqUpTo(RowUniverse, MaxRows)}
                           \cup {FileOf(rows) : rows \in TwoRowStores}
    /\ changes \in SeqUpTo(Additions \cup Deletions, MaxChanges)
    /\ log_txt = NoLog
    /\ pc = "update"
    /\ calls = 0
    /\ faults = 0
    /\ csv_before = NoFile
    /\ update_outcome = "none"
    /\ listing = <<>>
    /\ bulletin = <<>>
    /\ NotStarted
    /\ IndexIdle

\* the caller hands the same change list to update_data_csv once more
CallAgain ==
    /\ pc = "save"
    /\ calls < MaxCalls
    /\ pc' = "update"
    /\ UNCHANGED <<fileVars, webVars, changes, faults, updateVars, indexVars, mainVars,
                   historyVars>>

NextStore == UpdateDataCsv \/ CallAgain

SpecStore == InitStore /\ [][NextStore]_vars

---------------------------------------------------------------------------
(* Properties of update_data_csv *)

IsAddition(change) == Len(change) = 3

\* the row's name is the given name, both stripped and case-folded
NameMatches(row, n) == Lower(Strip(row.name)) = Lower(Strip(n))

RowsOf(file) == LoadRows(file)

RowSet(rows) == {rows[i] : i \in 1..Len(rows)}

\* C1: applying an Addition A twice, as the list [A, A] or as [A] in two
\* successive calls, leaves the rows that applying [A] once leaves: the
\* second application appends no row.
C1_AdditionIdempotent ==
    (pc = "save" /\ update_outcome = "ok" /\ faults = 0) =>
        /\ (Len(changes) = 2 /\ IsAddition(changes[1]) /\ changes[2] = changes[1])
              => RowsOf(data_csv) = UpdateRows(RowsOf(csv_before), <<changes[1]>>)
        /\ (calls >= 2 /\ Len(changes) = 1 /\ IsAddition(changes[1]))
              => data_csv = csv_before

\* a second call has applied the one Addition again to a store that holds its row
C1_Witness ==
    /\ pc = "save" /\ update_outcome = "ok" /\ faults = 0
    /\ calls = 2
    /\ Len(changes) = 1 /\ IsAddition(changes[1])
    /\ \E row \in RowSet(RowsOf(data_csv)) : row = NewRow(changes[1])
    /\ data_csv = csv_before

\* C2: once a Deletion for name N is applied no row remains whose name,
\* stripped and case-folded, equals N stripped and case-folded, whatever its
\* date and address, rows appended earlier in the same list included; a
\* Deletion that matches no row changes nothing.
C2_DeletionBlanket ==
    (pc = "save" /\ update_outcome = "ok") =>
        \A i \in 1..Len(changes) : IsDeletion(changes[i]) =>
            /\ \A row \in RowSet(UpdateRows(RowsOf(csv_before), SubSeq(changes, 1, i))) :
                  ~NameMatches(row, changes[i][2])
            /\ (\A j \in (i + 1)..Len(changes) :
                    IsAddition(changes[j]) =>
                        Lower(Strip(changes[j][2])) # Lower(Strip(changes[i][2])))
                  => \A row \in RowSet(RowsOf(data_csv)) : ~NameMatches(row, changes[i][2])
            /\ (Len(changes) = 1
                /\ \A row \in RowSet(RowsOf(csv_before)) : ~NameMatches(row, changes[i][2]))
                  => RowsOf(data_csv) = RowsOf(csv_before)

\* a Deletion has removed a stored row and a row appended earlier in the list,
\* whose names differ from the deleted name in case or in surrounding blanks
C2_Witness ==
    /\ pc = "save" /\ update_outcome = "ok"
    /\ Len(changes) = 2 /\ IsAddition(changes[1]) /\ IsDeletion(changes[2])
    /\ changes[1][2] # changes[2][2]
    /\ NameMatches(NewRow(changes[1]), changes[2][2])
    /\ \E row \in RowSet(RowsOf(csv_before)) :
          /\ NameMatches(row, changes[2][2])
          /\ row.name # changes[2][2]
          /\ row.date_added # NewRow(changes[1]).date_added
    /\ RowsOf(data_csv) = <<>>

\* the row the documented normalisation of an Addition describes: the date in
\* calendar form, the address case-folded, the name stripped
NormalizedRow(change) ==
    [date_added |-> StrfDate(change[1]), address |-> Lower(change[3]),
     name |-> Strip(change[2])]

\* C11: an Addition that is not a duplicate appends the row made of its date
\* in calendar form, its address case-folded and its name stripped; applied to
\* an empty store, the file then holds exactly the line of that row.
C11_AdditionNormalized ==
    (/\ pc = "save" /\ update_outcome = "ok" /\ calls = 1
     /\ Len(changes) = 1 /\ IsAddition(changes[1])
     /\ RowsOf(data_csv) # RowsOf(csv_before))
        => /\ RowsOf(data_csv) = Append(RowsOf(csv_before), NormalizedRow(changes[1]))
           /\ RowsOf(csv_before) = <<>>
                 => data_csv.lines = <<WriteRow(NormalizedRow(changes[1]))>>

\* the stripped, case-folded names of the Deletion events of a change list
DeletedNames(chs) ==
    {Lower(Strip(chs[i][2])) : i \in {j \in 1..Len(chs) : IsDeletion(chs[j])}}

\* the rows whose name no Deletion event of the list names
Survivors(rows, chs) ==
    SelectSeq(rows, LAMBDA row : Lower(Strip(row.name)) \notin DeletedNames(chs))

\* the row is the entry of an Addition event of the list
RowOfAddition(row, chs) ==
    \E j \in 1..Len(chs) :
        /\ IsAddition(chs[j])
        /\ Strip(row.date_added) = StrfDate(chs[j][1])
        /\ Strip(Lower(row.address)) = Strip(Lower(chs[j][3]))
        /\ Strip(row.name) = Strip(chs[j][2])

\* C16: after update_data_csv the rows read before whose stripped, case-folded
\* name no Deletion event names come first, in the order they had and with
\* the date, address and name they had, and every other row is a row of an
\* Addition event, after them.
C16_Frame ==
    (pc = "save" /\ update_outcome = "ok") =>
        LET before == RowsOf(csv_before)
            after == RowsOf(data_csv)
            kept == Survivors(before, changes)
        IN  /\ Len(after) >= Len(kept)
            /\ SubSeq(after, 1, Len(kept)) = kept
            /\ \A i \in (Len(kept) + 1)..Len(after) : RowOfAddition(after[i], changes)

\* of two stored rows a Deletion removed the second, the first stayed in
\* place, and the row of an Addition was appended after it
C16_Witness ==
    /\ pc = "save" /\ update_outcome = "ok"
    /\ Len(RowsOf(csv_before)) = 2
    /\ Len(Survivors(RowsOf(csv_before), changes)) = 1
    /\ Len(RowsOf(data_csv)) = 2
    /\ RowsOf(data_csv)[1] = RowsOf(csv_before)[1]
    /\ RowsOf(data_csv)[2] \notin RowSet(RowsOf(csv_before))

\* the normalised triple of a row: the date stripped, the address lower-cased
\* and stripped, the name stripped
NormTriple(row) == <<Strip(row.date_added), Strip(Lower(row.address)), Strip(row.name)>>

NoDuplicates(rows) ==
    \A i, j \in 1..Len(rows) : i < j => NormTriple(rows[i]) # NormTriple(rows[j])

\* C17: a call of update_data_csv that begins with a store holding no two
\* rows of the same normalised triple ends with such a store, whatever the
\* change list and however the call ends; by induction the same holds over
\* successive calls.
C17_NoDuplicateFacts ==
    (pc = "save" /\ NoDuplicates(RowsOf(csv_before))) => NoDuplicates(RowsOf(data_csv))

\* an Addition whose row differs from a stored row only in the case of the
\* address was applied to a store of distinct entries, and no row was appended
C17_Witness ==
    /\ pc = "save" /\ update_outcome = "ok"
    /\ NoDuplicates(RowsOf(csv_before))
    /\ Len(RowsOf(csv_before)) = 2
    /\ \E j \in 1..Len(changes) :
          /\ IsAddition(changes[j])
          /\ \E row \in RowSet(RowsOf(csv_before)) :
                /\ NormTriple(NewRow(changes[j])) = NormTriple(row)
                /\ NewRow(changes[j]) # row
    /\ RowsOf(data_csv) = RowsOf(csv_before)

---------------------------------------------------------------------------
(* collect_content_pages on its own: any short listing, any window *)

Dates == {1, 2, 3}

\* a bulletin's url carries its date (/recent-actions/YYYYMMDD)
Links == {<<d, d>> : d \in Dates}

NonEmptySeqUpTo(S, n) == SeqUpTo(S, n) \ {<<>>}

InitIndex ==
    /\ listing \in SeqUpTo(NonEmptySeqUpTo(Links, MaxLinks), MaxPages)
    /\ start_date \in Dates
    /\ end_date \in Dates
    /\ start_date <= end_date
    /\ bulletin = <<>>
    /\ data_csv = NoFile
    /\ log_txt = NoLog
    /\ pc = "collect"
    /\ argv = <<StrfDate(start_date), StrfDate(end_date)>>
    /\ existing_names = {}
    /\ todo = <<>>
    /\ cur = NoBulletin
    /\ changes = <<>>
    /\ run = 1
    /\ calls = 0
    /\ faults = 0
    /\ csv_before = NoFile
    /\ update_outcome = "none"
    /\ log_before = NoLog
    /\ net_failed = FALSE
    /\ detail_fetched = {}
    /\ loaded_names = {}
    /\ dropped = {}
    /\ prev_window = <<NoDate, NoDate>>
    /\ IndexIdle

NextIndex == FetchPage

SpecIndex == InitIndex /\ [][NextIndex]_vars

---------------------------------------------------------------------------
(* Properties of collect_content_pages *)

RECURSIVE Flatten(_)
Flatten(pages) == IF pages = <<>> THEN <<>> ELSE Head(pages) \o Flatten(Tail(pages))

InRange(link) == link[2] >= start_date /\ link[2] <= end_date

TooOld(link) == link[2] < start_date

\* the links of a page that come before its first link older than start
BeforeFirstOld(links) ==
    LET olds == {i \in 1..Len(links) : TooOld(links[i])}
    IN  IF olds = {} THEN links
        ELSE SubSeq(links, 1, (CHOOSE i \in olds : \A j \in olds : i <= j) - 1)

Descending(links) == \A i, j \in 1..Len(links) : i < j => links[i][2] >= links[j][2]

\* C9: every (url, date) pair collected lies in the window, start <= date <= end,
\* for every listing, order of links and fetch outcome.
C9_WindowBound ==
    \A i \in 1..Len(content_pages) :
        start_date <= content_pages[i][2] /\ content_pages[i][2] <= end_date

\* the function has returned some pages of a listing that also holds a link
\* newer than end and a link older than start
C9_Witness ==
    /\ index_outcome = "early_stop"
    /\ content_pages # <<>>
    /\ \E i \in 1..Len(Flatten(listing)) : Flatten(listing)[i][2] > end_date

\* C10 as stated: at an early stop the result holds every in-range link of the
\* earlier pages and every link of the current page dated in [start, end].
C10_EarlyStopAsStated ==
    index_outcome = "early_stop" =>
        \A link \in RowSet(Flatten(SubSeq(listing, 1, page + 1))) :
            InRange(link) => link \in RowSet(content_pages)

\* C10 as amended: once a link dated before start is met no further page is
\* requested, and the result is the in-range links of the earlier pages followed
\* by the in-range links of the current page that precede that first too-old
\* link; for a listing in descending date order it is all the in-range links.
C10_EarlyStop ==
    index_outcome = "early_stop" =>
        /\ pc # "collect"
        /\ fetches = page + 1
        /\ content_pages =
              SelectSeq(Flatten(SubSeq(listing, 1, page)) \o BeforeFirstOld(listing[page + 1]),
                        InRange)
        /\ Descending(Flatten(listing))
              => content_pages = SelectSeq(Flatten(listing), InRange)

\* the documented example: dates [3, 2, 1] and start 2 return the first two
C10_Witness ==
    /\ index_outcome = "early_stop"
    /\ Flatten(listing) = <<(<<3, 3>>), (<<2, 2>>), (<<1, 1>>)>>
    /\ start_date = 2
    /\ content_pages = <<(<<3, 3>>), (<<2, 2>>)>>

---------------------------------------------------------------------------
(* Properties of main *)

\* the names of the additions among the first k changes
AddedBefore(k) == {changes[j][2] : j \in {m \in 1..k : IsAddition(changes[m])}}

\* C3: the change list is in bulletin-date order: for bulletins dated d1 < d2
\* every event of the d1 bulletin comes before every event of the d2 bulletin.
C3_Chronology ==
    \A i, j \in 1..Len(changes) : i < j => changes[i][1] <= changes[j][1]

\* C4: every Addition carries an address from the identification records of a
\* search result whose stripped, case-folded name contains the stripped,
\* case-folded query name, and no detail page is requested for any other result.
C4_CorrelationContainment ==
    /\ \A i \in 1..Len(changes) : IsAddition(changes[i]) =>
          \E k \in 1..Len(SearchResults) :
              /\ Contains(Lower(Strip(changes[i][2])), Lower(Strip(SearchResults[k].name)))
              /\ changes[i][3] \in
                    RowSet(ExtractEthAddress(Identifications(SearchResults[k].detail_url)))
    /\ \A request \in detail_fetched :
          Contains(Lower(Strip(request[1])), Lower(Strip(request[2].name)))

\* an Addition was emitted from the matching result while the search also
\* returned a result of another name that holds an address
C4_Witness ==
    /\ \E i \in 1..Len(changes) :
          /\ IsAddition(changes[i])
          /\ changes[i][3] = <<"x", "a">>
          /\ \E k \in 1..Len(SearchResults) :
                /\ ~Contains(Lower(Strip(changes[i][2])), Lower(Strip(SearchResults[k].name)))
                /\ ExtractEthAddress(Identifications(SearchResults[k].detail_url)) # <<>>
    /\ detail_fetched # {}

\* C5: a Deletion is emitted only for a name that is then in the existing-names
\* set, the names loaded from the store at the start of the run and the names
\* of the Additions emitted before it; a deletion read for any other name
\* emits nothing.
C5_DeletionGating ==
    /\ \A i \in 1..Len(changes) : IsDeletion(changes[i]) =>
          changes[i][2] \in loaded_names \cup AddedBefore(i - 1)
    /\ \A d \in dropped : d[1] \notin loaded_names \cup AddedBefore(d[2])
    /\ pc \in {"collect", "process", "resolve", "update"} =>
          existing_names = loaded_names \cup AddedBefore(Len(changes))

\* a Deletion was emitted for a name added earlier in the run and absent from
\* the store, and a deletion of an unknown name was dropped
C5_Witness ==
    /\ \E i \in 1..Len(changes) :
          IsDeletion(changes[i]) /\ changes[i][2] \notin loaded_names
    /\ dropped # {}

\* C6: a run whose update_data_csv call could not read or could not write
\* data.csv leaves log.txt as it was.
C6_CursorOnlyAfterApply ==
    (pc = "done" /\ update_outcome \in {"read_failed", "write_failed"})
        => log_txt = log_before

\* C7: a run in which a network request failed leaves log.txt as it was.
C7_CursorKeptOnNetworkFailure ==
    (pc = "done" /\ net_failed) => log_txt = log_before

\* C8: a second run over the same window, with the same web and no failure in
\* either run, leaves the rows the first run left (stated for a listing that
\* presents its links newest first).
C8_RepeatedRunIdempotent ==
    (/\ Descending(Flatten(listing))
     /\ run >= 2
     /\ pc = "save"
     /\ faults = 0
     /\ update_outcome = "ok"
     /\ prev_window = <<start_date, end_date>>)
        => RowSet(RowsOf(data_csv)) = RowSet(RowsOf(csv_before))

\* C13: a run whose load of the existing names stopped on a read failure
\* collects no change and leaves data.csv as it was, and an update_data_csv
\* call that could not read data.csv leaves it as it was.
C13_StoreReadFailureAborts ==
    /\ (pc = "save" /\ loaded_names # NamesOf(RowsOf(csv_before)))
          => (changes = <<>> /\ data_csv = csv_before)
    /\ (pc = "save" /\ update_outcome = "read_failed") => data_csv = csv_before

\* C15: every name of an emitted Addition is in the existing-names set, a
\* deletion read after an Addition of its name is emitted (after that
\* Addition, also when the store did not hold the name), and a name is added
\* to the set only with an Addition: a name that resolved to no address is
\* not in the set and has no event.
C15_SameRunRecognition ==
    /\ pc \in {"collect", "process", "resolve", "update"} =>
          /\ AddedBefore(Len(changes)) \subseteq existing_names
          /\ existing_names \ loaded_names \subseteq AddedBefore(Len(changes))
    /\ \A d \in dropped : d[1] \notin AddedBefore(d[2])
    /\ \A i \in 1..Len(changes) :
          (IsDeletion(changes[i]) /\ changes[i][2] \notin loaded_names)
              => changes[i][2] \in AddedBefore(i - 1)
    /\ \A i \in 1..Len(changes) : IsAddition(changes[i]) => changes[i][3] # <<>>
    /\ <<"W", "U">> \notin existing_names
    /\ \A i \in 1..Len(changes) : changes[i][2] # <<"W", "U">>

\* a name absent from the store was added, its deletion in the same bulletin
\* and its deletion in the next bulletin were both emitted after the Addition,
\* and the deletion of a name without address was dropped
C15_Witness ==
    /\ \E j, i, k \in 1..Len(changes) :
          /\ j < i /\ i < k
          /\ IsAddition(changes[j]) /\ IsDeletion(changes[i]) /\ IsDeletion(changes[k])
          /\ changes[i][2] = changes[j][2] /\ changes[k][2] = changes[j][2]
          /\ changes[i][1] = changes[j][1] /\ changes[k][1] > changes[j][1]
          /\ changes[j][2] \notin loaded_names
    /\ \E d \in dropped : d[1] = <<"W", "U">>

\* C18: while a run has had no failure, the store holds no row that a
\* Deletion event for a dropped name would remove: no row whose stripped,
\* case-folded name is that of a deletion the gate dropped.
C18_GatingAgreesWithDeletion ==
    (faults = 0 /\ pc \in {"process", "resolve", "update"}) =>
        \A d \in dropped :
            \A row \in RowSet(RowsOf(data_csv)) : ~NameMatches(row, d[1])

\* the run is between its start and its update_data_csv call, or has exited:
\* data.csv and log.txt are as the run found them
BeforeUpdate == pc \in {"collect", "process", "resolve", "update", "exit"}

\* the date the stated preference order yields: the date of the cursor file
\* when it holds a valid date, else the greatest parseable date_added of the
\* store rows, else none
PreferredDate(log, rows) ==
    LET parseable == {StrpDate(Strip(rows[i].date_added)) : i \in 1..Len(rows)} \ {NoDate}
    IN  IF log.exists /\ StrpDate(Strip(log.text)) # NoDate
        THEN StrpDate(Strip(log.text))
        ELSE IF parseable # {} THEN Max(parseable)
        ELSE NoDate

\* C12: a run that has not exited has a start date that is not after its end
\* date, and a run that exited made no network request and wrote neither the
\* changes nor the cursor.
C12_InvalidWindowFatal ==
    /\ (run >= 1 /\ pc # "exit") => (start_date # NoDate /\ start_date <= end_date)
    /\ pc = "exit" =>
          /\ fetches = 0 /\ detail_fetched = {} /\ ~net_failed
          /\ changes = <<>>
          /\ log_txt = log_before

\* C14: in a run without argument and without read failure the start date is
\* the date of the cursor file when that file holds a valid date, else the
\* greatest parseable date_added of the store rows, and the end date is
\* today; when there is neither, the run exits.
C14_CursorLoadPreference ==
    (run >= 1 /\ argv = <<>> /\ faults = 0 /\ BeforeUpdate) =>
        LET expected == PreferredDate(log_txt, RowsOf(data_csv))
        IN  IF expected = NoDate THEN pc = "exit"
            ELSE pc # "exit" /\ start_date = expected /\ end_date = Today

\* the cursor file holds text that is not a date, and the run started from
\* the greatest date of a store that also holds an unparseable date
C14_Witness ==
    /\ run >= 1 /\ argv = <<>> /\ faults = 0 /\ pc = "collect"
    /\ log_txt = LogOf(BadDateText)
    /\ \E i \in 1..Len(RowsOf(data_csv)) :
          StrpDate(Strip(RowsOf(data_csv)[i].date_added)) = NoDate
    /\ \E i \in 1..Len(RowsOf(data_csv)) :
          StrpDate(Strip(RowsOf(data_csv)[i].date_added)) = 1
    /\ start_date = 2

=============================================================================
